---- MODULE Spec2Model ----
(***************************************************************************)
(* Model of the schema generator (src/src/generate.ts, src/src/index.ts).  *)
(*                                                                         *)
(* Strings are sequences of tokens, so that template literals are          *)
(* concatenations and split / join / replace act on separator tokens:      *)
(*   "AWS::S3::Bucket"  is  <<"AWS", "::", "S3", "::", "Bucket">>          *)
(*   "aws-s3"           is  <<"aws", "-", "s3">>                           *)
(* Objects used as dictionaries are functions from keys to values.         *)
(*                                                                         *)
(* generate() is one synchronous function; the model cuts it at the loop   *)
(* heads: one step per resource header, per attribute, per property, per   *)
(* type-definition header, per field.  A throw is a step of its own that   *)
(* leaves the partial state behind and rejects the promise.  modules and   *)
(* moduleMap (generate.ts 41-62) are written and never read, and are left  *)
(* out.                                                                    *)
(***************************************************************************)
EXTENDS Integers, Sequences, FiniteSets, TLC

VARIABLES
    services,            \* db.all('service')
    resources,           \* db.all('resource')
    types,               \* db.all('typeDefinition')
    pc,                  \* position in generate() / main
    ri,                  \* index of the resource the pass-1 loop is at
    ti,                  \* index of the type definition the pass-2 loop is at
    fi,                  \* index of the field the inner loop is at
    propertyRefList,     \* type-definition id -> "<resource>.<name>"
    resourceTypes,       \* the resource document
    propertyTypes,       \* the nested-type document
    propertyTypeKeyList, \* type-definition id -> full nested-type name
    propertyTypeDetails, \* fields of the type definition being processed
    resourceName,        \* let resourceName: string | undefined
    calls,               \* the getType calls of the latest step, in order
    thrown,              \* the error generate() rejected with
    files,               \* file name -> document written by main
    failed               \* core.setFailed was called

vars == <<services, resources, types, pc, ri, ti, fi, propertyRefList,
          resourceTypes, propertyTypes, propertyTypeKeyList,
          propertyTypeDetails, resourceName, calls, thrown, files, failed>>

(***************************************************************************)
(* Bounds                                                                  *)
(***************************************************************************)
MaxResources == 2
MaxTypes == 3

(***************************************************************************)
(* String and dictionary helpers                                           *)
(***************************************************************************)
EmptyObject == [k \in {} |-> k]

Put(obj, key, value) ==
    [k \in (DOMAIN obj) \cup {key} |-> IF k = key THEN value ELSE obj[k]]

Has(obj, key) == key \in DOMAIN obj

Undefined == [undefined |-> TRUE]

Str(s) == [undefined |-> FALSE, value |-> s]

RECURSIVE Split(_, _)
Split(s, sep) ==
    IF \A i \in 1..Len(s) : s[i] # sep
    THEN <<s>>
    ELSE LET i == CHOOSE n \in 1..Len(s) :
                      s[n] = sep /\ \A j \in 1..(n - 1) : s[j] # sep
         IN  <<SubSeq(s, 1, i - 1)>> \o Split(SubSeq(s, i + 1, Len(s)), sep)

RECURSIVE Join(_, _)
Join(parts, sep) ==
    IF Len(parts) = 0 THEN <<>>
    ELSE IF Len(parts) = 1 THEN parts[1]
    ELSE parts[1] \o <<sep>> \o Join(Tail(parts), sep)

Slice(seq, from, to) ==
    SubSeq(seq, from + 1, IF to < Len(seq) THEN to ELSE Len(seq))

ReplaceFirst(s, tok, repl) ==
    IF \A i \in 1..Len(s) : s[i] # tok
    THEN s
    ELSE LET i == CHOOSE n \in 1..Len(s) :
                      s[n] = tok /\ \A j \in 1..(n - 1) : s[j] # tok
         IN  SubSeq(s, 1, i - 1) \o repl \o SubSeq(s, i + 1, Len(s))

\* Mutant: shift() instead of pop().
PopFirst(seq) == IF Len(seq) = 0 THEN Undefined ELSE seq[1]

Pop(seq) == IF Len(seq) = 0 THEN Undefined ELSE seq[Len(seq)]

Coalesce(a, b) == IF a = Undefined THEN b ELSE a

(***************************************************************************)
(* The property-type descriptors of the database                           *)
(***************************************************************************)
TString == [type |-> "string"]
TBoolean == [type |-> "boolean"]
TNumber == [type |-> "number"]
TInteger == [type |-> "integer"]
TDateTime == [type |-> "date-time"]
TJson == [type |-> "json"]
TTag == [type |-> "tag"]
TNull == [type |-> "null"]
TRef(id) == [type |-> "ref", reference |-> [ref |-> id]]
TArray(e) == [type |-> "array", element |-> e]
TMap(e) == [type |-> "map", element |-> e]
TUnion(ts) == [type |-> "union", types |-> ts]

NoPrevious == [present |-> FALSE, types |-> <<>>]
Previous(ts) == [present |-> TRUE, types |-> ts]

Field(id, type, previousTypes, required) ==
    [id |-> id, type |-> type, previousTypes |-> previousTypes,
     required |-> required]

(***************************************************************************)
(* The databases the run is started on.  Resource type names are unique,   *)
(* type-definition ids are unique, and every id a descriptor refers to is  *)
(* a type definition of the database (db.get finds it).                    *)
(***************************************************************************)
S3 == [name |-> <<"aws", "-", "s3">>,
       cloudFormationNamespace |-> <<"AWS", "::", "S3">>]
S3Outposts == [name |-> <<"aws", "-", "s3", "-", "outposts">>,
               cloudFormationNamespace |-> <<"AWS", "::", "S3">>]
Lambda == [name |-> <<"aws", "-", "lambda">>,
           cloudFormationNamespace |-> <<"AWS", "::", "Lambda">>]

ServiceLists == {<<S3, Lambda>>, <<S3>>, <<S3, S3Outposts, Lambda>>}

\* Resource type names.  The four-segment name is the shape of a registry
\* module type: pass 1 takes its first two segments as namespace, pass 2
\* all but the last.
BucketType == <<"AWS", "::", "S3", "::", "Bucket">>
FunctionType == <<"AWS", "::", "Lambda", "::", "Function">>
ModuleType == <<"AWS", "::", "S3", "::", "Bucket", "::", "MODULE">>

Resource(cfn, name, attributes, properties) ==
    [cloudFormationType |-> cfn, name |-> name, attributes |-> attributes,
     properties |-> properties]

ResourcePool ==
    { Resource(BucketType, <<"Bucket">>,
               <<Field("Arn", TString, NoPrevious, FALSE)>>,
               <<Field("BucketName", TString, NoPrevious, TRUE)>>),
      Resource(BucketType, <<"Bucket">>,
               <<Field("Rule", TRef("t1"), Previous(<<TString, TDateTime>>), FALSE)>>,
               <<Field("Filters", TUnion(<<TRef("t1"), TMap(TRef("t2")), TString>>),
                       Previous(<<TInteger, TBoolean>>), FALSE),
                 Field("Policy", TJson, Previous(<<>>), TRUE)>>),
      Resource(FunctionType, <<"Function">>,
               <<Field("Created", TDateTime, Previous(<<>>), FALSE)>>,
               <<Field("Config", TArray(TRef("t2")), NoPrevious, TRUE),
                 Field("Tags", TArray(TTag), NoPrevious, FALSE)>>),
      Resource(FunctionType, <<"Function">>,
               <<>>,
               <<Field("Code", TString, Previous(<<TRef("t3")>>), TRUE),
                 Field("Memory", TNumber, Previous(<<TNull>>), FALSE)>>),
      Resource(ModuleType, <<"MODULE">>,
               <<>>,
               <<Field("Nested", TMap(TRef("t3")), NoPrevious, FALSE)>>) }

TypeDefinition(id, name, properties) ==
    [id |-> id, name |-> name, properties |-> properties]

TypePool ==
    { TypeDefinition("t1", <<"Rule">>,
                     <<Field("Prefix", TString, NoPrevious, TRUE),
                       Field("Filter", TRef("t2"), Previous(<<>>), FALSE)>>),
      TypeDefinition("t2", <<"Filter">>,
                     <<Field("Value", TInteger,
                             Previous(<<TString, TBoolean>>), FALSE)>>),
      TypeDefinition("t3", <<"Legacy">>,
                     <<Field("Tags", TArray(TTag), NoPrevious, FALSE)>>),
      TypeDefinition("t4", <<"Rule">>,
                     <<Field("Old", TJson, Previous(<<TArray(TRef("t3"))>>), FALSE)>>) }

RECURSIVE RefsOf(_)
\* The ids a descriptor refers to, at any depth.
RefsOf(propType) ==
    CASE propType.type = "ref" -> {propType.reference.ref}
      [] propType.type \in {"array", "map"} -> RefsOf(propType.element)
      [] propType.type = "union" ->
            UNION {RefsOf(propType.types[i]) : i \in 1..Len(propType.types)}
      [] OTHER -> {}

FieldRefs(field) ==
    RefsOf(field.type)
        \cup UNION {RefsOf(field.previousTypes.types[i]) :
                        i \in 1..Len(field.previousTypes.types)}

FieldsRefs(fields) == UNION {FieldRefs(fields[i]) : i \in 1..Len(fields)}

Range(seq) == {seq[i] : i \in 1..Len(seq)}

SeqsUpTo(S, n) == UNION {[1..k -> S] : k \in 0..n}

\* A database snapshot: consistent, as the provider delivers it.
Consistent(rs, ts) ==
    /\ Len(rs) >= 1
    /\ \A i, j \in 1..Len(rs) :
          rs[i].cloudFormationType = rs[j].cloudFormationType => i = j
    /\ \A i, j \in 1..Len(ts) : ts[i].id = ts[j].id => i = j
    /\ \A i \in 1..Len(rs) :
          FieldsRefs(rs[i].attributes) \cup FieldsRefs(rs[i].properties)
              \subseteq {t.id : t \in Range(ts)}
    /\ \A i \in 1..Len(ts) :
          FieldsRefs(ts[i].properties) \subseteq {t.id : t \in Range(ts)}

DbGet(id) == CHOOSE t \in Range(types) : t.id = id

DbLookup(namespace) ==
    SelectSeq(services, LAMBDA s : s.cloudFormationNamespace = namespace)

\* Mutant: the first match, several or not.
OnlyFirst(matches) ==
    IF Len(matches) >= 1
    THEN [ok |-> TRUE, value |-> matches[1]]
    ELSE [ok |-> FALSE]

\* .only(): the single match, or an error when there is not exactly one.
Only(matches) ==
    IF Len(matches) = 1
    THEN [ok |-> TRUE, value |-> matches[1]]
    ELSE [ok |-> FALSE]

(***************************************************************************)
(* getType (generate.ts 64-103)                                            *)
(***************************************************************************)
\* Mutant: refIds declared outside getType, so that a call starts from the
\* ids of the call before it.
StaleRefIds == IF Len(calls) = 0 THEN EmptyObject ELSE calls[Len(calls)].result.ids

\* let refIds = {} : every getType call starts from an empty reference map.
FreshRefIds == EmptyObject

RECURSIVE doGetType(_, _, _)
RECURSIVE doGetTypes(_, _, _)

\* doGetType writes the ids it meets into the refIds of the enclosing call;
\* here refIds is threaded through: the result is the value type and the
\* reference map after the descent.
doGetType(propType, cfnType, refIds) ==
    CASE propType.type = "string" ->
            [type |-> [primitive |-> "string"], ids |-> refIds]
      [] propType.type = "boolean" ->
            [type |-> [primitive |-> "boolean"], ids |-> refIds]
      [] propType.type = "number" ->
            [type |-> [primitive |-> "number"], ids |-> refIds]
      [] propType.type = "integer" ->
            [type |-> [primitive |-> "number"], ids |-> refIds]
      [] propType.type = "date-time" ->
            [type |-> [primitive |-> "date-time"], ids |-> refIds]
      [] propType.type = "ref" ->
            LET ref == DbGet(propType.reference.ref)
            IN  [type |-> [named |-> cfnType \o <<".">> \o ref.name],
                 ids |-> Put(refIds, ref.id, ref.name)]
      [] propType.type = "array" ->
            LET e == doGetType(propType.element, cfnType, refIds)
            IN  [type |-> [listOf |-> e.type], ids |-> e.ids]
      [] propType.type = "json" ->
            [type |-> [primitive |-> "json"], ids |-> refIds]
      [] propType.type = "map" ->
            LET e == doGetType(propType.element, cfnType, refIds)
            IN  [type |-> [mapOf |-> e.type], ids |-> e.ids]
      [] propType.type = "tag" ->
            [type |-> [named |-> <<"CfnTag">>], ids |-> refIds]
      [] propType.type = "union" ->
            LET u == doGetTypes(propType.types, cfnType, refIds)
            IN  [type |-> [unionOf |-> u.types], ids |-> u.ids]
      [] propType.type = "null" ->
            [type |-> [primitive |-> "undefined"], ids |-> refIds]
      [] OTHER -> [type |-> Undefined, ids |-> refIds]

\* _propType.types.map(t => doGetType(t, _cfnType)), left to right.
doGetTypes(propTypes, cfnType, refIds) ==
    IF Len(propTypes) = 0
    THEN [types |-> <<>>, ids |-> refIds]
    ELSE LET first == doGetType(Head(propTypes), cfnType, refIds)
             rest == doGetTypes(Tail(propTypes), cfnType, first.ids)
         IN  [types |-> <<first.type>> \o rest.types, ids |-> rest.ids]

getType(propType, cfnType) == doGetType(propType, cfnType, FreshRefIds)

\* The record of one getType call, kept in calls.
Call(propType, cfnType) ==
    [propType |-> propType, cfnType |-> cfnType,
     result |-> getType(propType, cfnType)]

\* previousTypes?.map((t) => getType(t, cfnType).type)
PreviousResolved(previousTypes, cfnType) ==
    [i \in 1..Len(previousTypes.types) |->
        getType(previousTypes.types[i], cfnType).type]

PreviousCalls(previousTypes, cfnType) ==
    [i \in 1..Len(previousTypes.types) |-> Call(previousTypes.types[i], cfnType)]

\* previousTypes?.map(...).pop(): undefined when previousTypes is absent or
\* empty, the last resolution otherwise.
PreviousType(previousTypes, cfnType) ==
    IF previousTypes.present
    THEN Pop(PreviousResolved(previousTypes, cfnType))
    ELSE Undefined

(***************************************************************************)
(* Naming and document entries                                             *)
(***************************************************************************)
\* const name = `Cfn${resource.name}`
ConstructName(resource) == <<"Cfn">> \o resource.name

\* const goPackage = service.name.replace('-', '')
GoPackage(service) == ReplaceFirst(service.name, "-", <<>>)

JavaPackage(service) ==
    <<"software.amazon.awscdk.">>
        \o ReplaceFirst(ReplaceFirst(service.name, "-", <<".">>), "aws", <<"services">>)

\* Mutant: the Go symbol is the bare resource name.
ConstructGoBare(service, name) ==
    [typescript |-> [module |-> <<"aws-cdk-lib/">> \o service.name, name |-> name],
     csharp |-> [namespace |-> <<"Amazon.CDK.">>
                     \o ReplaceFirst(service.cloudFormationNamespace, "::", <<".">>),
                 name |-> name],
     golang |-> [module |-> <<"github.com/aws/aws-cdk-go/awscdk/v2/">> \o GoPackage(service),
                 package |-> GoPackage(service),
                 name |-> Tail(name)],
     java |-> [package |-> JavaPackage(service), name |-> name],
     python |-> [module |-> <<"aws_cdk.">> \o ReplaceFirst(service.name, "-", <<"_">>),
                 name |-> name]]

\* resourceTypes[cloudFormationType].construct
Construct(service, name) ==
    [typescript |-> [module |-> <<"aws-cdk-lib/">> \o service.name, name |-> name],
     csharp |-> [namespace |-> <<"Amazon.CDK.">>
                     \o ReplaceFirst(service.cloudFormationNamespace, "::", <<".">>),
                 name |-> name],
     golang |-> [module |-> <<"github.com/aws/aws-cdk-go/awscdk/v2/">> \o GoPackage(service),
                 package |-> GoPackage(service),
                 name |-> name],
     java |-> [package |-> JavaPackage(service), name |-> name],
     python |-> [module |-> <<"aws_cdk.">> \o ReplaceFirst(service.name, "-", <<"_">>),
                 name |-> name]]

\* propertyTypes[fullPropertyName].name
TypeNames(service, resourceNameParts, propertyName) ==
    [typescript |-> [module |-> <<"aws-cdk-lib/">> \o service.name,
                     name |-> propertyName],
     csharp |-> [namespace |-> <<"Amazon.CDK.">> \o Join(resourceNameParts, "."),
                 name |-> propertyName],
     golang |-> [module |-> <<"github.com/aws/aws-cdk-go/awscdk/v2/">> \o GoPackage(service),
                 package |-> GoPackage(service),
                 name |-> ReplaceFirst(propertyName, ".", <<"_">>)],
     java |-> [package |-> JavaPackage(service), name |-> propertyName],
     python |-> [module |-> <<"aws_cdk.">> \o ReplaceFirst(service.name, "-", <<"_">>),
                 name |-> propertyName]]

\* Mutant: the attribute treated like a property.
AttributeEntryPreviousWins(id, type, previousType) ==
    [name |-> id, valueType |-> Coalesce(previousType, type),
     previousType |-> previousType]

\* attributeList[id] = { name: id, valueType: type.type, previousType }
AttributeEntry(id, type, previousType) ==
    [name |-> id, valueType |-> type, previousType |-> previousType]

\* { name: id, valueType: previousType ?? type.type, required }
PropertyEntry(id, type, previousType, required) ==
    [name |-> id, valueType |-> Coalesce(previousType, type), required |-> required]

\* Mutant: an id that has a value keeps it.
RefEntryKeepFirst(refList, id, cfnType, name) ==
    IF Has(refList, id) THEN refList ELSE Put(refList, id, cfnType \o <<".">> \o name)

\* propertyRefList[_id] = `${resource.cloudFormationType}.${_type}`
RefEntry(refList, id, cfnType, name) == Put(refList, id, cfnType \o <<".">> \o name)

\* Object.entries(type.ids).map(...): every id of the call is written.
MergeIds(refList, ids, cfnType) ==
    [id \in (DOMAIN refList) \cup (DOMAIN ids) |->
        IF id \in DOMAIN ids
        THEN RefEntry(refList, id, cfnType, ids[id])[id]
        ELSE refList[id]]

\* Object.entries(propertyRefList).find(([id, _]) => type.$id === id)?.[1]
FindRef(refList, id) == IF Has(refList, id) THEN Str(refList[id]) ELSE Undefined

\* Mutant: the running owner wins over the definition's own entry.
OwnerSourceSticky(found, current) == Coalesce(current, found)

\* Mutant: undefined is formatted into the name instead of throwing.
OwnerSourceFormatted(found, current) ==
    IF Coalesce(found, current) = Undefined
    THEN Str(<<"undefined">>)
    ELSE Coalesce(found, current)

\* (found ?? resourceName): undefined makes .split throw a TypeError.
OwnerSource(found, current) == Coalesce(found, current)

\* .split('.')[0]
OwnerOf(source) == Split(source.value, ".")[1]

ShortPropertyName(type) == type.name \o <<"Property">>

FullPropertyName(owner, type) == owner \o <<".">> \o ShortPropertyName(type)

\* cloudFormationType.split('::').slice(0, 2).join('::')
ResourceServiceType(cloudFormationType) ==
    Join(Slice(Split(cloudFormationType, "::"), 0, 2), "::")

\* resourceNameParts after resourceNameParts.pop()
ResourceNameParts(owner) ==
    LET parts == Split(owner, "::") IN SubSeq(parts, 1, Len(parts) - 1)

LastPart(owner) == LET parts == Split(owner, "::") IN parts[Len(parts)]

\* JSON.stringify leaves out the properties whose value is undefined
\* (name and required are never undefined here).
Stringify(entry) ==
    [k \in {f \in DOMAIN entry :
                f \in {"valueType", "previousType"} => entry[f] # Undefined} |->
        entry[k]]

StringifyResources(doc) ==
    [r \in DOMAIN doc |->
        [construct |-> doc[r].construct,
         attributes |-> [a \in DOMAIN doc[r].attributes |->
                            Stringify(doc[r].attributes[a])],
         properties |-> [q \in DOMAIN doc[r].properties |->
                            Stringify(doc[r].properties[q])]]]

StringifyTypes(doc) ==
    [t \in DOMAIN doc |->
        [name |-> doc[t].name,
         properties |-> [q \in DOMAIN doc[t].properties |->
                            Stringify(doc[t].properties[q])]]]

(***************************************************************************)
(* The run                                                                 *)
(***************************************************************************)
Init ==
    /\ services \in ServiceLists
    /\ resources \in SeqsUpTo(ResourcePool, MaxResources)
    /\ types \in SeqsUpTo(TypePool, MaxTypes)
    /\ Consistent(resources, types)
    /\ pc = "resource"
    /\ ri = 1
    /\ ti = 1
    /\ fi = 1
    /\ propertyRefList = EmptyObject
    /\ resourceTypes = EmptyObject
    /\ propertyTypes = EmptyObject
    /\ propertyTypeKeyList = EmptyObject
    /\ propertyTypeDetails = EmptyObject
    /\ resourceName = Undefined
    /\ calls = <<>>
    /\ thrown = "none"
    /\ files = EmptyObject
    /\ failed = FALSE

Resource_ == resources[ri]
Type_ == types[ti]

\* generate.ts 105-139, the service found
BeginResource ==
    /\ pc = "resource"
    /\ ri <= Len(resources)
    /\ LET cloudFormationType == Resource_.cloudFormationType
           service == Only(DbLookup(ResourceServiceType(cloudFormationType)))
       IN  /\ service.ok
           /\ resourceTypes' =
                 Put(resourceTypes, cloudFormationType,
                     [construct |-> Construct(service.value, ConstructName(Resource_)),
                      attributes |-> EmptyObject,
                      properties |-> EmptyObject])
    /\ pc' = "attributes"
    /\ fi' = 1
    /\ calls' = <<>>
    /\ UNCHANGED <<services, resources, types, ri, ti, propertyRefList,
                   propertyTypes, propertyTypeKeyList, propertyTypeDetails,
                   resourceName, thrown, files, failed>>

\* generate.ts 105-114, .only() throws
ResourceServiceThrow ==
    /\ pc = "resource"
    /\ ri <= Len(resources)
    /\ LET cloudFormationType == Resource_.cloudFormationType
           service == Only(DbLookup(ResourceServiceType(cloudFormationType)))
       IN  /\ ~service.ok
           /\ resourceTypes' =
                 Put(resourceTypes, cloudFormationType,
                     [construct |-> EmptyObject,
                      attributes |-> EmptyObject,
                      properties |-> EmptyObject])
    /\ pc' = "rejected"
    /\ thrown' = "only"
    /\ calls' = <<>>
    /\ UNCHANGED <<services, resources, types, ri, ti, fi, propertyRefList,
                   propertyTypes, propertyTypeKeyList, propertyTypeDetails,
                   resourceName, files, failed>>

\* generate.ts 142-159, one attribute
ResolveAttribute ==
    /\ pc = "attributes"
    /\ fi <= Len(Resource_.attributes)
    /\ LET cloudFormationType == Resource_.cloudFormationType
           attribute == Resource_.attributes[fi]
           type == getType(attribute.type, cloudFormationType)
           previousType == PreviousType(attribute.previousTypes, cloudFormationType)
           entry == resourceTypes[cloudFormationType]
       IN  /\ propertyRefList' = MergeIds(propertyRefList, type.ids, cloudFormationType)
           /\ resourceTypes' =
                 Put(resourceTypes, cloudFormationType,
                     [entry EXCEPT !.attributes =
                         Put(entry.attributes, attribute.id,
                             AttributeEntry(attribute.id, type.type, previousType))])
           /\ calls' = <<Call(attribute.type, cloudFormationType)>>
                          \o PreviousCalls(attribute.previousTypes, cloudFormationType)
    /\ fi' = fi + 1
    /\ UNCHANGED <<services, resources, types, pc, ri, ti, propertyTypes,
                   propertyTypeKeyList, propertyTypeDetails, resourceName,
                   thrown, files, failed>>

\* generate.ts 159-161, the attributes are exhausted
AttributesDone ==
    /\ pc = "attributes"
    /\ fi > Len(Resource_.attributes)
    /\ pc' = "properties"
    /\ fi' = 1
    /\ UNCHANGED <<services, resources, types, ri, ti, propertyRefList,
                   resourceTypes, propertyTypes, propertyTypeKeyList,
                   propertyTypeDetails, resourceName, calls, thrown, files, failed>>

\* generate.ts 162-179, one property
ResolveProperty ==
    /\ pc = "properties"
    /\ fi <= Len(Resource_.properties)
    /\ LET cloudFormationType == Resource_.cloudFormationType
           property == Resource_.properties[fi]
           type == getType(property.type, cloudFormationType)
           previousType == PreviousType(property.previousTypes, cloudFormationType)
           entry == resourceTypes[cloudFormationType]
       IN  /\ propertyRefList' = MergeIds(propertyRefList, type.ids, cloudFormationType)
           /\ resourceTypes' =
                 Put(resourceTypes, cloudFormationType,
                     [entry EXCEPT !.properties =
                         Put(entry.properties, property.id,
                             PropertyEntry(property.id, type.type, previousType,
                                           property.required))])
           /\ calls' = <<Call(property.type, cloudFormationType)>>
                          \o PreviousCalls(property.previousTypes, cloudFormationType)
    /\ fi' = fi + 1
    /\ UNCHANGED <<services, resources, types, pc, ri, ti, propertyTypes,
                   propertyTypeKeyList, propertyTypeDetails, resourceName,
                   thrown, files, failed>>

\* generate.ts 179-180, the properties are exhausted: next resource
PropertiesDone ==
    /\ pc = "properties"
    /\ fi > Len(Resource_.properties)
    /\ pc' = "resource"
    /\ ri' = ri + 1
    /\ fi' = 1
    /\ UNCHANGED <<services, resources, types, ti, propertyRefList,
                   resourceTypes, propertyTypes, propertyTypeKeyList,
                   propertyTypeDetails, resourceName, calls, thrown, files, failed>>

\* generate.ts 180-182, the resources are exhausted: pass 2 starts
ResourcesDone ==
    /\ pc = "resource"
    /\ ri > Len(resources)
    /\ pc' = "type"
    /\ ti' = 1
    /\ resourceName' = Undefined
    /\ calls' = <<>>
    /\ UNCHANGED <<services, resources, types, ri, fi, propertyRefList,
                   resourceTypes, propertyTypes, propertyTypeKeyList,
                   propertyTypeDetails, thrown, files, failed>>

\* generate.ts 183-225, the owner resolved and the service found
BeginType ==
    /\ pc = "type"
    /\ ti <= Len(types)
    /\ LET source == OwnerSource(FindRef(propertyRefList, Type_.id), resourceName)
       IN  /\ source # Undefined
           /\ LET owner == OwnerOf(source)
                  fullPropertyName == FullPropertyName(owner, Type_)
                  resourceNameParts == ResourceNameParts(owner)
                  propertyName == <<"Cfn">> \o LastPart(owner) \o <<".">>
                                      \o ShortPropertyName(Type_)
                  service == Only(DbLookup(Join(resourceNameParts, "::")))
              IN  /\ service.ok
                  /\ resourceName' = Str(owner)
                  /\ propertyTypes' =
                        Put(propertyTypes, fullPropertyName,
                            [name |-> TypeNames(service.value, resourceNameParts,
                                                propertyName)])
    /\ propertyTypeDetails' = EmptyObject
    /\ pc' = "fields"
    /\ fi' = 1
    /\ calls' = <<>>
    /\ UNCHANGED <<services, resources, types, ri, ti, propertyRefList,
                   resourceTypes, propertyTypeKeyList, thrown, files, failed>>

\* generate.ts 185-189, resourceName is undefined and the id has no entry:
\* undefined.split throws a TypeError
TypeOwnerThrow ==
    /\ pc = "type"
    /\ ti <= Len(types)
    /\ OwnerSource(FindRef(propertyRefList, Type_.id), resourceName) = Undefined
    /\ pc' = "rejected"
    /\ thrown' = "type"
    /\ calls' = <<>>
    /\ UNCHANGED <<services, resources, types, ri, ti, fi, propertyRefList,
                   resourceTypes, propertyTypes, propertyTypeKeyList,
                   propertyTypeDetails, resourceName, files, failed>>

\* generate.ts 183-198, .only() throws
TypeServiceThrow ==
    /\ pc = "type"
    /\ ti <= Len(types)
    /\ LET source == OwnerSource(FindRef(propertyRefList, Type_.id), resourceName)
       IN  /\ source # Undefined
           /\ LET owner == OwnerOf(source)
                  service == Only(DbLookup(Join(ResourceNameParts(owner), "::")))
              IN  /\ ~service.ok
                  /\ resourceName' = Str(owner)
                  /\ propertyTypes' =
                        Put(propertyTypes, FullPropertyName(owner, Type_), EmptyObject)
    /\ pc' = "rejected"
    /\ thrown' = "only"
    /\ calls' = <<>>
    /\ UNCHANGED <<services, resources, types, ri, ti, fi, propertyRefList,
                   resourceTypes, propertyTypeKeyList, propertyTypeDetails,
                   files, failed>>

\* generate.ts 227-236, one field of the type definition
ResolveTypeField ==
    /\ pc = "fields"
    /\ fi <= Len(Type_.properties)
    /\ LET property == Type_.properties[fi]
           previousType == PreviousType(property.previousTypes, resourceName.value)
           propType == getType(property.type, resourceName.value)
       IN  /\ propertyTypeDetails' =
                 Put(propertyTypeDetails, property.id,
                     PropertyEntry(property.id, propType.type, previousType,
                                   property.required))
           /\ calls' = PreviousCalls(property.previousTypes, resourceName.value)
                          \o <<Call(property.type, resourceName.value)>>
    /\ fi' = fi + 1
    /\ UNCHANGED <<services, resources, types, pc, ri, ti, propertyRefList,
                   resourceTypes, propertyTypes, propertyTypeKeyList,
                   resourceName, thrown, files, failed>>

\* generate.ts 237-239, the fields are exhausted: next type definition
FinishType ==
    /\ pc = "fields"
    /\ fi > Len(Type_.properties)
    /\ LET fullPropertyName == FullPropertyName(resourceName.value, Type_)
       IN  /\ propertyTypes' =
                 Put(propertyTypes, fullPropertyName,
                     [name |-> propertyTypes[fullPropertyName].name,
                      properties |-> propertyTypeDetails])
           /\ propertyTypeKeyList' = Put(propertyTypeKeyList, Type_.id, fullPropertyName)
    /\ pc' = "type"
    /\ ti' = ti + 1
    /\ fi' = 1
    /\ UNCHANGED <<services, resources, types, ri, propertyRefList, resourceTypes,
                   propertyTypeDetails, resourceName, calls, thrown, files, failed>>

\* generate.ts 241-244, the promise resolves
Return ==
    /\ pc = "type"
    /\ ti > Len(types)
    /\ pc' = "resolved"
    /\ calls' = <<>>
    /\ UNCHANGED <<services, resources, types, ri, ti, fi, propertyRefList,
                   resourceTypes, propertyTypes, propertyTypeKeyList,
                   propertyTypeDetails, resourceName, thrown, files, failed>>

\* index.ts 9-22
WriteFiles ==
    /\ pc = "resolved"
    /\ files' = Put(Put(files, "cdk-resources.json", StringifyResources(resourceTypes)),
                    "cdk-types.json", StringifyTypes(propertyTypes))
    /\ pc' = "written"
    /\ UNCHANGED <<services, resources, types, ri, ti, fi, propertyRefList,
                   resourceTypes, propertyTypes, propertyTypeKeyList,
                   propertyTypeDetails, resourceName, calls, thrown, failed>>

\* index.ts 23-25
SetFailed ==
    /\ pc = "rejected"
    /\ failed' = TRUE
    /\ pc' = "failed"
    /\ UNCHANGED <<services, resources, types, ri, ti, fi, propertyRefList,
                   resourceTypes, propertyTypes, propertyTypeKeyList,
                   propertyTypeDetails, resourceName, calls, thrown, files>>

Next ==
    \/ BeginResource
    \/ ResourceServiceThrow
    \/ ResolveAttribute
    \/ AttributesDone
    \/ ResolveProperty
    \/ PropertiesDone
    \/ ResourcesDone
    \/ BeginType
    \/ TypeOwnerThrow
    \/ TypeServiceThrow
    \/ ResolveTypeField
    \/ FinishType
    \/ Return
    \/ WriteFiles
    \/ SetFailed

Spec == Init /\ [][Next]_vars

(***************************************************************************)
(* Properties.  What has been recorded so far, read off the loop position. *)
(***************************************************************************)
Languages == {"typescript", "csharp", "golang", "java", "python"}

InPass2 == pc \in {"type", "fields", "resolved", "written"}

AttributesRecorded(i) ==
    IF i < ri THEN Len(resources[i].attributes)
    ELSE IF i = ri /\ pc = "attributes" THEN fi - 1
    ELSE IF i = ri /\ pc = "properties" THEN Len(resources[i].attributes)
    ELSE 0

PropertiesRecorded(i) ==
    IF i < ri THEN Len(resources[i].properties)
    ELSE IF i = ri /\ pc = "properties" THEN fi - 1
    ELSE 0

FieldsRecorded == IF pc = "fields" THEN fi - 1 ELSE 0

NonemptyPrevious(field) ==
    field.previousTypes.present /\ Len(field.previousTypes.types) > 0

LastPrevious(field) == field.previousTypes.types[Len(field.previousTypes.types)]

\* The number of services whose namespace equals ns.
Matches(ns) ==
    Cardinality({i \in 1..Len(services) : services[i].cloudFormationNamespace = ns})

\* The resources whose current attribute or property types, as far as they
\* have been resolved, refer to id.
Writers(id) ==
    {i \in 1..Len(resources) :
        \/ \E a \in 1..AttributesRecorded(i) : id \in RefsOf(resources[i].attributes[a].type)
        \/ \E q \in 1..PropertiesRecorded(i) : id \in RefsOf(resources[i].properties[q].type)}

Last(S) == CHOOSE i \in S : \A j \in S : j <= i

\* The resources that refer to id in any type descriptor, previous types
\* included.
Referencing(id) ==
    {i \in 1..Len(resources) :
        id \in FieldsRefs(resources[i].attributes) \cup FieldsRefs(resources[i].properties)}

HasEntry(i) == Has(propertyRefList, types[i].id)

\* The running owner is the resource named in the entry of type definition i.
OwnerIsEntryOf(i) ==
    \E r \in Range(resources) :
        /\ propertyRefList[types[i].id] = r.cloudFormationType \o <<".">> \o types[i].name
        /\ resourceName = Str(r.cloudFormationType)

RECURSIVE NamedIn(_)
RECURSIVE NamedInAll(_)
\* The named value types inside a value type, at any depth.
NamedIn(valueType) ==
    IF "named" \in DOMAIN valueType THEN {valueType.named}
    ELSE IF "listOf" \in DOMAIN valueType THEN NamedIn(valueType.listOf)
    ELSE IF "mapOf" \in DOMAIN valueType THEN NamedIn(valueType.mapOf)
    ELSE IF "unionOf" \in DOMAIN valueType THEN NamedInAll(valueType.unionOf)
    ELSE {}

NamedInAll(valueTypes) ==
    IF Len(valueTypes) = 0 THEN {}
    ELSE NamedIn(Head(valueTypes)) \cup NamedInAll(Tail(valueTypes))

\* C1: in pass 2 a type definition that has an entry in the reference table
\* gets the resource of its own entry as owner; one that has none, and is
\* preceded by a definition that has, gets the owner of the nearest
\* preceding definition that has an entry.
OwnerCarryForward ==
    pc = "fields" =>
        IF HasEntry(ti)
        THEN OwnerIsEntryOf(ti)
        ELSE \A j \in 1..(ti - 1) :
                (HasEntry(j) /\ \A k \in (j + 1)..(ti - 1) : ~HasEntry(k))
                    => OwnerIsEntryOf(j)

\* C1 witness: a definition without entry, two places after the nearest
\* definition with an entry, has had its owner resolved.
OwnerCarriedForward ==
    /\ pc = "fields"
    /\ ti = 3
    /\ HasEntry(1)
    /\ ~HasEntry(2)
    /\ ~HasEntry(3)

\* The value type a property or type-definition field must record: the
\* resolution of the last previous type when there is one, of the current
\* type otherwise.
PreviousWins(field, entry, scope) ==
    IF NonemptyPrevious(field)
    THEN /\ entry.valueType = getType(LastPrevious(field), scope).type
         /\ getType(field.type, scope).type # getType(LastPrevious(field), scope).type
               => entry.valueType # getType(field.type, scope).type
    ELSE entry.valueType = getType(field.type, scope).type

\* C2: every recorded resource property and every recorded type-definition
\* field has as valueType the resolution of its last previous type when its
\* previous-type sequence is nonempty, and the resolution of its current
\* type when the sequence is absent or empty.
PreviousTypePrecedence ==
    /\ \A i \in 1..Len(resources) : \A q \in 1..PropertiesRecorded(i) :
          LET property == resources[i].properties[q]
              cfn == resources[i].cloudFormationType
          IN  /\ Has(resourceTypes[cfn].properties, property.id)
              /\ PreviousWins(property, resourceTypes[cfn].properties[property.id], cfn)
    /\ \A q \in 1..FieldsRecorded :
          LET property == types[ti].properties[q]
          IN  /\ Has(propertyTypeDetails, property.id)
              /\ PreviousWins(property, propertyTypeDetails[property.id],
                              resourceName.value)

\* C2 witness: a resource property and a type-definition field, each with
\* two previous types, have been recorded.
PreviousTypeRecorded ==
    /\ pc = "fields"
    /\ \E q \in 1..FieldsRecorded :
          Len(types[ti].properties[q].previousTypes.types) = 2
    /\ \E i \in 1..Len(resources) : \E q \in 1..PropertiesRecorded(i) :
          Len(resources[i].properties[q].previousTypes.types) = 2

WriteOnce ==
    [][\A id \in DOMAIN propertyRefList : propertyRefList'[id] = propertyRefList[id]]_vars

\* C4 amended: the table holds exactly the ids the current types resolved so
\* far refer to, and the value of each is "<R>.<name>" for the last resource
\* R in traversal order that refers to it: a later write by the same
\* resource stores the same value, one by another resource replaces it.
LastWriterWins ==
    /\ DOMAIN propertyRefList = {t.id : t \in {u \in Range(types) : Writers(u.id) # {}}}
    /\ \A id \in DOMAIN propertyRefList :
          propertyRefList[id] =
              resources[Last(Writers(id))].cloudFormationType \o <<".">> \o DbGet(id).name

\* C4 witness: an id that two resources refer to has been written twice.
WrittenByTwoResources ==
    \E id \in DOMAIN propertyRefList : Cardinality(Writers(id)) = 2

\* C5 as claimed: when pass 2 is at a type definition, pass 1 is over, and a
\* definition that any type descriptor of any resource attribute or property
\* refers to (current or previous, at any depth) has an entry
\* "<R>.<short name>" for a resource R that refers to it.
ReferenceTableComplete ==
    (pc \in {"type", "fields"} /\ ti <= Len(types)) =>
        /\ ri > Len(resources)
        /\ Referencing(types[ti].id) # {} =>
              /\ HasEntry(ti)
              /\ \E i \in Referencing(types[ti].id) :
                    propertyRefList[types[ti].id] =
                        resources[i].cloudFormationType \o <<".">> \o types[ti].name

\* The namespace pass 1 looks up for resource i, and the one pass 2 looks up
\* for an owner.
ResourceNamespace(i) == ResourceServiceType(resources[i].cloudFormationType)
OwnerNamespace(owner) == Join(ResourceNameParts(owner), "::")

\* C6: a service lookup that matches no service or several ends the run:
\* no field of that resource or type definition is resolved, nothing is
\* written, and main reports the failure; the two documents are written
\* together or not at all, and only after every lookup matched exactly one
\* service.
ServiceResolutionFatal ==
    /\ pc \in {"attributes", "properties"} => Matches(ResourceNamespace(ri)) = 1
    /\ pc = "fields" => Matches(OwnerNamespace(resourceName.value)) = 1
    /\ thrown # "none" => pc \in {"rejected", "failed"} /\ files = EmptyObject
    /\ pc \in {"rejected", "failed"} => thrown # "none"
    /\ pc = "failed" <=> failed
    /\ files # EmptyObject =>
          /\ pc = "written"
          /\ DOMAIN files = {"cdk-resources.json", "cdk-types.json"}
          /\ \A i \in 1..Len(resources) : Matches(ResourceNamespace(i)) = 1
          /\ \A key \in DOMAIN propertyTypes :
                Matches(OwnerNamespace(Split(key, ".")[1])) = 1

\* C6 witness: the lookup failed in pass 2 after two type definitions had
\* been processed, and main reported the failure without writing.
ServiceLookupFailedInPass2 ==
    /\ pc = "failed"
    /\ thrown = "only"
    /\ ri > Len(resources)
    /\ ti = 3
    /\ files = EmptyObject

\* C7: every resource of the resource document has a construct record with
\* exactly the five language entries, each named "Cfn" + the resource's
\* short name.
ConstructNaming ==
    \A i \in 1..Len(resources) :
        LET cfn == resources[i].cloudFormationType
            checked(doc) ==
                /\ DOMAIN doc[cfn].construct = Languages
                /\ \A l \in Languages :
                      doc[cfn].construct[l].name = <<"Cfn">> \o resources[i].name
        IN  /\ (Has(resourceTypes, cfn) /\ pc \notin {"rejected", "failed"})
                  => checked(resourceTypes)
            /\ Has(files, "cdk-resources.json") =>
                  /\ DOMAIN files["cdk-resources.json"] =
                        {r.cloudFormationType : r \in Range(resources)}
                  /\ checked(files["cdk-resources.json"])

\* C7 witness: a resource document with two resources has been written.
TwoConstructsWritten ==
    /\ Has(files, "cdk-resources.json")
    /\ Cardinality(DOMAIN files["cdk-resources.json"]) = 2

\* C8: every getType call returns as reference map exactly the ids its own
\* descriptor refers to (at any depth, each mapped to the short name of its
\* definition), and a call on a reference to D scoped to O returns
\* {named: "<O>.<D.shortName>"} with the single entry D.id -> D.shortName.
ReferenceResolution ==
    \A n \in 1..Len(calls) :
        LET call == calls[n]
        IN  /\ DOMAIN call.result.ids = RefsOf(call.propType)
            /\ \A id \in RefsOf(call.propType) : call.result.ids[id] = DbGet(id).name
            /\ call.propType.type = "ref" =>
                  LET D == DbGet(call.propType.reference.ref)
                  IN  /\ call.result.type = [named |-> call.cfnType \o <<".">> \o D.name]
                      /\ DOMAIN call.result.ids = {D.id}
            /\ call.propType.type = "union" =>
                  DOMAIN call.result.ids =
                      UNION {RefsOf(call.propType.types[m]) :
                                m \in 1..Len(call.propType.types)}

\* C8 witness: a call on a reference came after a call that met other ids.
ReferenceResolvedAfterOtherIds ==
    \E n \in 1..Len(calls) :
        /\ calls[n].propType.type = "ref"
        /\ \E id \in DOMAIN propertyRefList : id # calls[n].propType.reference.ref

\* The value types of a written document entry's fields.
ValueTypesOf(fields) == {fields[f].valueType : f \in DOMAIN fields}

WrittenValueTypes ==
    UNION {ValueTypesOf(files["cdk-resources.json"][r].attributes)
              \cup ValueTypesOf(files["cdk-resources.json"][r].properties) :
                  r \in DOMAIN files["cdk-resources.json"]}
        \cup UNION {ValueTypesOf(files["cdk-types.json"][t].properties) :
                        t \in DOMAIN files["cdk-types.json"]}

\* C9 as claimed: after a successful run every named value type "<X>.<N>"
\* of either document, the tag type apart, has its definition in the
\* nested-type document under the key "<X>.<N>Property".
ReferentialIntegrity ==
    pc = "written" =>
        \A valueType \in WrittenValueTypes :
            \A named \in NamedIn(valueType) \ {<<"CfnTag">>} :
                Has(files["cdk-types.json"], named \o <<"Property">>)

StartsWith(s, prefix) ==
    Len(s) >= Len(prefix) /\ SubSeq(s, 1, Len(prefix)) = prefix

\* C10: a type definition without entry that no definition with an entry
\* precedes ends the run with an error: pass 2 never gets past it, every
\* key of the nested-type document starts with the type name of a resource,
\* and main reports the failure and writes nothing.
UndefinedOwnerFatal ==
    /\ InPass2 =>
          \A i \in 1..(IF pc = "fields" THEN ti
                       ELSE IF pc = "type" THEN ti - 1
                       ELSE Len(types)) : \E j \in 1..i : HasEntry(j)
    /\ pc = "fields" => resourceName # Undefined
    /\ \A key \in DOMAIN propertyTypes :
          \E r \in Range(resources) :
              StartsWith(key, r.cloudFormationType \o <<".">>)
    /\ thrown = "type" =>
          /\ \A j \in 1..ti : ~HasEntry(j)
          /\ pc \in {"rejected", "failed"}
          /\ files = EmptyObject

\* C10 witness: the first type definition had no entry, and main reported
\* the failure without writing.
UndefinedOwnerFailed ==
    /\ pc = "failed"
    /\ thrown = "type"
    /\ ~HasEntry(1)
    /\ files = EmptyObject

====
